---- MODULE Spec2Model ----
(***************************************************************************)
(* SmartObfuscator (src/SmartObfuscator.py): control-flow obfuscation of   *)
(* Yul text.                                                               *)
(*                                                                         *)
(* Text is a sequence of tokens.  A token is a record [k, n, a, b]: k is   *)
(* the kind, n/a/b carry the names a generated token mentions.             *)
(*   source tokens   "R"   object\s*"runtime"   (the marker's words)       *)
(*                   "C"   code                                            *)
(*                   "{" "}" " " "\n"   one character each                 *)
(*                   "s"   any other run of characters without a newline   *)
(*   generated       "let"     let <n> := <literal>            (a = 0)     *)
(*                             let <n> := <op>(<a>, <literal>) (a # 0)     *)
(*                   "if"      if <predicate>       n = 1 iff eval_to      *)
(*                   "switch"  switch <predicate>   a, b = v1, v2 or 0, 0  *)
(*                   "else" "case0" "default"   the words of the guards    *)
(***************************************************************************)
EXTENDS Integers, Sequences, FiniteSets, TLC

VARIABLES
    yul_code,               \* self.yul_code
    obfuscated_yul_code,    \* self.obfuscated_yul_code: [some, text]
    init_dummy_vars,        \* self.init_dummy_vars[1] (current_depth is always 1)
    pc,                     \* position of the running call
    call,                   \* the public method last called
    ncalls,                 \* number of public calls made
    ret,                    \* what the last call returned: [kind, text]
    prolog, main_logic, epilog,     \* locals of control_flow_obfuscation
    main_logic_lines,       \* main_logic.split("\n") of the scan
    nguards,                \* iterations of the wrap loop of the running call
    nreads,                 \* places generated so far that read a decoy
    idx,                    \* index of the next line of the scan
    depth,                  \* depth counter of the scan
    obfuscated_main_logic,  \* accumulator of the scan
    injected,               \* history: the dummy code put before each line
    var_name,               \* candidate name of _generate_dummy_var_name
    decoy_val,              \* value each decoy statement binds (DummySpec)
    p_eval_to, p_template, p_v1, p_v2, p_value     \* PredSpec

pipe_vars == <<yul_code, obfuscated_yul_code, init_dummy_vars, pc, call, ncalls,
               ret, prolog, main_logic, epilog, main_logic_lines, nguards,
               nreads, idx, depth, obfuscated_main_logic, injected>>
pred_vars == <<p_eval_to, p_template, p_v1, p_v2, p_value>>
vars == <<pipe_vars, var_name, decoy_val, pred_vars>>

----------------------------------------------------------------------------
(* Program constants *)

DUMMY_LINE_GENERATOR_STRENGTH == 2
DUMMY_CODE_FALSE_FLOW_MULTIPLIER == 2

(* Bounds *)

MaxLen == 6         \* longest input text of SplitSpec, in tokens
WordBits == 4       \* width of the machine word of PredSpec and DummySpec
MaxLiteral == 3     \* largest literal drawn by DummySpec (randint(0, 100))
MaxDecoys == 4      \* decoys DummySpec generates
NumWords == 2       \* words of CONDUSING_VAR_NAMES used by NameSpec
NumSuffixes == 2    \* numeric suffixes used by NameSpec (randint(0, 10))
MaxStmts == 9       \* dummy statements one instance may generate
MaxReads == 1       \* places of the generated text that read a decoy
MaxCalls == 2       \* public calls per instance

----------------------------------------------------------------------------
(* Tokens and text *)

Tok(k) == [k |-> k, n |-> 0, a |-> 0, b |-> 0]
LetTok(name, operand) == [k |-> "let", n |-> name, a |-> operand, b |-> 0]
GuardTok(kind, eval_to, v1, v2) ==
    [k |-> kind, n |-> IF eval_to THEN 1 ELSE 0, a |-> v1, b |-> v2]

NL == Tok("\n")

IsSpace(t) == t.k \in {" ", "\n"}

Range(s) == {s[i] : i \in 1..Len(s)}

\* str.count(c)
Count(text, c) == Cardinality({i \in 1..Len(text) : text[i].k = c})

\* str.strip()
RECURSIVE LStrip(_)
LStrip(text) ==
    IF text # <<>> /\ IsSpace(Head(text)) THEN LStrip(Tail(text)) ELSE text

RECURSIVE RStrip(_)
RStrip(text) ==
    IF text # <<>> /\ IsSpace(text[Len(text)])
    THEN RStrip(SubSeq(text, 1, Len(text) - 1))
    ELSE text

Strip(text) == RStrip(LStrip(text))

\* str.split("\n"): a text without newline is one line, "" included
RECURSIVE SplitLinesFrom(_, _, _)
SplitLinesFrom(text, i, cur) ==
    IF i > Len(text) THEN <<cur>>
    ELSE IF text[i].k = "\n" THEN <<cur>> \o SplitLinesFrom(text, i + 1, <<>>)
    ELSE SplitLinesFrom(text, i + 1, Append(cur, text[i]))

SplitLines(text) == SplitLinesFrom(text, 1, <<>>)

----------------------------------------------------------------------------
(* _split_main_logic *)

\* re.match of  <head>\s*{  at position i: index of the brace, or 0
RECURSIVE SkipSpace(_, _)
SkipSpace(text, j) ==
    IF j <= Len(text) /\ IsSpace(text[j]) THEN SkipSpace(text, j + 1) ELSE j

MatchAt(text, i, head) ==
    IF text[i].k # head THEN 0
    ELSE LET j == SkipSpace(text, i + 1)
         IN IF j <= Len(text) /\ text[j].k = "{" THEN j ELSE 0

\* re.search(...).end(): the leftmost match's end, 0 when there is none
RECURSIVE SearchFrom(_, _, _)
SearchFrom(text, i, head) ==
    IF i > Len(text) THEN 0
    ELSE IF MatchAt(text, i, head) # 0 THEN MatchAt(text, i, head)
    ELSE SearchFrom(text, i + 1, head)

SearchEnd(text, head) == SearchFrom(text, 1, head)

RuntimeEnd(code) == SearchEnd(code, "R")
CodeEnd(code) ==
    SearchEnd(SubSeq(code, RuntimeEnd(code) + 1, Len(code)), "C")

SplitRaisesWithoutCodeCheck(code) == RuntimeEnd(code) = 0

\* the two raise ValueError branches
SplitRaises(code) == RuntimeEnd(code) = 0 \/ CodeEnd(code) = 0

\* the character loop: [main, epi] after reading text[i..]
RECURSIVE SplitWalk(_, _, _, _, _)
SplitWalk(text, i, d, main, epi) ==
    IF i > Len(text) THEN <<main, epi>>
    ELSE LET c == text[i]
             d2 == IF c.k = "{" THEN d + 1
                   ELSE IF c.k = "}" THEN d - 1 ELSE d
         IN IF d2 <= 0
            THEN SplitWalk(text, i + 1, d2, main, Append(epi, c))
            ELSE SplitWalk(text, i + 1, d2, Append(main, c), epi)

\* [prolog, main_logic, epilog] of a text on which SplitRaises is false
split_main_logic(code) ==
    LET cut == CodeEnd(code) + RuntimeEnd(code)
        w == SplitWalk(SubSeq(code, cut + 1, Len(code)), 1, 1, <<>>, <<>>)
    IN <<SubSeq(code, 1, cut), w[1], w[2]>>

----------------------------------------------------------------------------
(* Dummy code and opaque predicates, as the sets of results the random      *)
(* draws allow.  A result is [text, vars, reads]: the text returned, the    *)
(* decoy list after the call, and the number of places of the generated     *)
(* text that read a decoy (the operand of an operation-form statement, the  *)
(* two variables of a predicate).                                           *)
(* The literal and the operation of a statement, and the template of a      *)
(* predicate, do not reach the text model; DummySpec and PredSpec hold them.*)

Gen(text, dvars, reads) == [text |-> text, vars |-> dvars, reads |-> reads]

\* _generate_dummy_var_name: a name not in the list, then appended to it.
\* Names are numbered in the order of their creation; the redraw loop is
\* modelled by NameSpec.
NewName(dvars) == Len(dvars) + 1

\* one iteration of the loop of _generate_dummy_code
DummyLine(g) ==
    IF Len(g.vars) >= MaxStmts THEN {}
    ELSE LET name == NewName(g.vars)
             grown == Append(g.vars, name)
             literal == Gen(g.text \o <<LetTok(name, 0), NL>>, grown, g.reads)
             operation ==
                 {Gen(g.text \o <<LetTok(name, v), NL>>, grown, g.reads + 1) :
                     v \in Range(g.vars)}
         IN IF Len(g.vars) < 3 \/ g.reads >= MaxReads
            THEN {literal}
            ELSE {literal} \cup operation

RECURSIVE DummyLines(_, _)
DummyLines(g, num_of_lines) ==
    IF num_of_lines = 0 THEN {g}
    ELSE UNION {DummyLines(h, num_of_lines - 1) : h \in DummyLine(g)}

\* a call of _generate_dummy_code in the state g: it returns a new string
generate_dummy_code(g, num_of_lines) ==
    DummyLines(Gen(<<>>, g.vars, g.reads), num_of_lines)

\* a predicate is the literal fallback or reads two decoys
PredReads(dvars) == IF Len(dvars) < 2 THEN 0 ELSE 2
CanGuard(g) == g.reads + PredReads(g.vars) <= MaxReads

\* the pairs <<v1, v2>> a predicate may mention; <<0, 0>> is the literal
\* fallback eq(0, 0) / eq(1, 0)
generate_opaque_predicate(dvars) ==
    IF Len(dvars) < 2 THEN {<<0, 0>>}
    ELSE Range(dvars) \X Range(dvars)

\* the two return statements of _insert_to_dummy_if_else
IfElseText(p, eval_to, payload, dummy_code) ==
    LET head == <<GuardTok("if", eval_to, p[1], p[2]), Tok("{"), NL>>
        mid == <<NL, Tok("}"), Tok("else"), Tok("{"), NL>>
        tail == <<NL, Tok("}")>>
    IN IF eval_to
       THEN head \o payload \o mid \o dummy_code \o tail
       ELSE head \o dummy_code \o mid \o payload \o tail

\* the two return statements of _insert_to_dummy_switch
SwitchText(p, eval_to, payload, dummy_code) ==
    LET head == <<GuardTok("switch", eval_to, p[1], p[2]), Tok("{"),
                  Tok("case0"), NL>>
        mid == <<NL, Tok("default"), NL>>
        tail == <<NL, Tok("}")>>
    IN IF eval_to
       THEN head \o payload \o mid \o dummy_code \o tail
       ELSE head \o dummy_code \o mid \o payload \o tail

FalseFlowSizes ==
    {n * DUMMY_CODE_FALSE_FLOW_MULTIPLIER : n \in 1..DUMMY_LINE_GENERATOR_STRENGTH}

RECURSIVE generate_dummy_code_for_false_flow(_)
RECURSIVE insert_to_dummy_if_else(_, _)
RECURSIVE insert_to_dummy_switch(_, _)

\* the state in which a guard, its predicate drawn, draws its filler
Guarded(g) == Gen(<<>>, g.vars, g.reads + PredReads(g.vars))

insert_to_dummy_if_else(payload, g) ==
    IF ~CanGuard(g) THEN {}
    ELSE {Gen(IfElseText(p, eval_to, payload, d.text), d.vars, d.reads) :
              eval_to \in BOOLEAN,
              p \in generate_opaque_predicate(g.vars),
              d \in generate_dummy_code_for_false_flow(Guarded(g))}

insert_to_dummy_switch(payload, g) ==
    IF ~CanGuard(g) THEN {}
    ELSE {Gen(SwitchText(p, eval_to, payload, d.text), d.vars, d.reads) :
              eval_to \in BOOLEAN,
              p \in generate_opaque_predicate(g.vars),
              d \in generate_dummy_code_for_false_flow(Guarded(g))}

\* the branch of _generate_dummy_code_for_false_flow that nests a guard
BranchedFlow(g, num_of_lines) ==
    LET third_of_lines == (num_of_lines \div 3) + 1
    IN UNION {UNION {UNION {
        {Gen(before.text \o w.text \o after.text, after.vars, after.reads) :
            after \in generate_dummy_code(w, third_of_lines)} :
        w \in insert_to_dummy_if_else(inside.text, inside)
              \cup insert_to_dummy_switch(inside.text, inside)} :
        inside \in generate_dummy_code(before, third_of_lines)} :
        before \in generate_dummy_code(g, third_of_lines)}

generate_dummy_code_for_false_flow(g) ==
    UNION {generate_dummy_code(g, num_of_lines) \cup BranchedFlow(g, num_of_lines) :
           num_of_lines \in FalseFlowSizes}

----------------------------------------------------------------------------
(* The public calls and the steps of control_flow_obfuscation *)

OtherFrame == UNCHANGED <<var_name, decoy_val, pred_vars>>

None == [some |-> FALSE, text |-> <<>>]
Some(text) == [some |-> TRUE, text |-> text]

NoReturn == [kind |-> "none", text |-> <<>>]
Raised == [kind |-> "error", text |-> <<>>]
Returned(text) == [kind |-> "text", text |-> text]

Src(kinds) == [i \in 1..Len(kinds) |-> Tok(kinds[i])]

\* the texts an instance is constructed with
Inputs ==
    { Src(<<"R", " ", "{", "C", "{", " ", "s", "}", "}">>),
      Src(<<"R", "{", "s", "}", "}">>),
      Src(<<"s", "C", "{", "s", "}">>),
      Src(<<"C", "{", "R", "\n", "{", "s", "}", "}">>),
      Src(<<"R", "s", "{", "C", "{", "s", "}", "}">>),
      Src(<<"R", "{", "C", " ", "s", "}">>),
      <<>> }

\* control_flow_obfuscation up to its wrap loop: the split, which may raise
StartRun ==
    IF SplitRaises(yul_code)
    THEN /\ ret' = Raised
         /\ UNCHANGED <<pc, prolog, main_logic, epilog, main_logic_lines,
                        nguards, idx, depth, obfuscated_main_logic, injected>>
    ELSE /\ pc' = "wrap"
         /\ main_logic_lines' = <<>>
         /\ prolog' = split_main_logic(yul_code)[1]
         /\ main_logic' = split_main_logic(yul_code)[2]
         /\ epilog' = split_main_logic(yul_code)[3]
         /\ nguards' = 0
         /\ idx' = 0
         /\ depth' = 0
         /\ obfuscated_main_logic' = <<>>
         /\ injected' = <<>>
         /\ UNCHANGED ret

obfuscate ==
    /\ OtherFrame
    /\ pc = "idle"
    /\ ncalls < MaxCalls
    /\ call' = "obfuscate"
    /\ ncalls' = ncalls + 1
    /\ StartRun
    /\ UNCHANGED <<yul_code, obfuscated_yul_code, init_dummy_vars, nreads>>

get_obfuscated_yul_uncached ==
    /\ OtherFrame
    /\ pc = "idle"
    /\ ncalls < MaxCalls
    /\ call' = "get"
    /\ ncalls' = ncalls + 1
    /\ StartRun
    /\ UNCHANGED <<yul_code, obfuscated_yul_code, init_dummy_vars, nreads>>

get_obfuscated_yul ==
    /\ OtherFrame
    /\ pc = "idle"
    /\ ncalls < MaxCalls
    /\ call' = "get"
    /\ ncalls' = ncalls + 1
    /\ IF obfuscated_yul_code.some
       THEN /\ ret' = Returned(obfuscated_yul_code.text)
            /\ UNCHANGED <<pc, prolog, main_logic, epilog, main_logic_lines,
                           nguards, idx, depth, obfuscated_main_logic, injected>>
       ELSE StartRun
    /\ UNCHANGED <<yul_code, obfuscated_yul_code, init_dummy_vars, nreads>>

\* the state handed to the generators
Here == Gen(<<>>, init_dummy_vars, nreads)

\* one iteration of the wrap loop with the result w of the insert call;
\* more is the outcome of the loop test on the new draw of branch
WrapStep(w, more) ==
    /\ more => CanGuard(w)
    /\ main_logic' = w.text
    /\ init_dummy_vars' = w.vars
    /\ nreads' = w.reads
    /\ nguards' = nguards + 1
    /\ pc' = IF more THEN "wrap" ELSE "scan"
    /\ main_logic_lines' = IF more THEN <<>> ELSE SplitLines(w.text)
    /\ idx' = IF more THEN 0 ELSE 1
    /\ depth' = IF more THEN 0 ELSE 1
    /\ UNCHANGED <<yul_code, obfuscated_yul_code, call, ncalls, ret, prolog,
                   epilog, obfuscated_main_logic, injected>>

wrap_if_else ==
    /\ OtherFrame
    /\ pc = "wrap"
    /\ \E w \in insert_to_dummy_if_else(main_logic, Here), more \in BOOLEAN :
          WrapStep(w, more)

wrap_switch ==
    /\ OtherFrame
    /\ pc = "wrap"
    /\ \E w \in insert_to_dummy_switch(main_logic, Here), more \in BOOLEAN :
          WrapStep(w, more)

\* depth += line.count("{") - line.count("}")
DepthAfter(d, line) == d + Count(line, "{") - Count(line, "}")

InjectsAboveOne(d) == d > 1

\* the test that decides whether a line gets dummy code before it
Injects(d) == d > 0

\* what the loop body appends for a line, given the dummy code drawn
ScanOutput(dummy_code, line) == dummy_code \o Strip(line) \o <<NL>>

scan_line ==
    /\ OtherFrame
    /\ pc = "scan"
    /\ idx <= Len(main_logic_lines)
    /\ LET line == main_logic_lines[idx]
           d == DepthAfter(depth, line)
       IN /\ depth' = d
          /\ idx' = idx + 1
          /\ IF Injects(d)
             THEN \E n \in 1..DUMMY_LINE_GENERATOR_STRENGTH :
                  \E g \in generate_dummy_code(Here, n) :
                      /\ obfuscated_main_logic' =
                             obfuscated_main_logic \o ScanOutput(g.text, line)
                      /\ injected' = Append(injected, g.text)
                      /\ init_dummy_vars' = g.vars
                      /\ nreads' = g.reads
             ELSE /\ obfuscated_main_logic' =
                         obfuscated_main_logic \o line \o <<NL>>
                  /\ injected' = Append(injected, <<>>)
                  /\ UNCHANGED <<init_dummy_vars, nreads>>
    /\ UNCHANGED <<yul_code, obfuscated_yul_code, pc, call, ncalls, ret,
                   prolog, main_logic, epilog, main_logic_lines, nguards>>

\* the end of control_flow_obfuscation and the return to the caller
finish ==
    /\ OtherFrame
    /\ pc = "scan"
    /\ idx > Len(main_logic_lines)
    /\ obfuscated_yul_code' =
           Some(prolog \o obfuscated_main_logic \o epilog)
    /\ ret' = Returned(prolog \o obfuscated_main_logic \o epilog)
    /\ pc' = "idle"
    /\ UNCHANGED <<yul_code, init_dummy_vars, call, ncalls, prolog, main_logic,
                   epilog, main_logic_lines, nguards, nreads, idx, depth,
                   obfuscated_main_logic, injected>>

OtherIdle ==
    /\ var_name = 0
    /\ decoy_val = <<>>
    /\ p_eval_to = FALSE /\ p_template = 0 /\ p_v1 = 0 /\ p_v2 = 0
    /\ p_value = 0

Init ==
    /\ yul_code \in Inputs
    /\ obfuscated_yul_code = None
    /\ init_dummy_vars = <<>>
    /\ pc = "idle"
    /\ call = "none"
    /\ ncalls = 0
    /\ ret = NoReturn
    /\ prolog = <<>> /\ main_logic = <<>> /\ epilog = <<>>
    /\ main_logic_lines = <<>>
    /\ nguards = 0 /\ nreads = 0 /\ idx = 0 /\ depth = 0
    /\ obfuscated_main_logic = <<>> /\ injected = <<>>
    /\ OtherIdle

Next ==
    \/ obfuscate
    \/ get_obfuscated_yul
    \/ wrap_if_else
    \/ wrap_switch
    \/ scan_line
    \/ finish

Spec == Init /\ [][Next]_vars

----------------------------------------------------------------------------
(* SplitSpec: _split_main_logic on every short text of source tokens *)

SourceKinds == {"R", "C", "{", "}", "s", " ", "\n"}

SourceTexts ==
    UNION {[1..n -> {Tok(k) : k \in SourceKinds}] : n \in 0..MaxLen}

SplitInit ==
    /\ yul_code \in SourceTexts
    /\ obfuscated_yul_code = None
    /\ init_dummy_vars = <<>>
    /\ pc = "split"
    /\ call = "none"
    /\ ncalls = 0
    /\ ret = NoReturn
    /\ prolog = <<>> /\ main_logic = <<>> /\ epilog = <<>>
    /\ main_logic_lines = <<>>
    /\ nguards = 0 /\ nreads = 0 /\ idx = 0 /\ depth = 0
    /\ obfuscated_main_logic = <<>> /\ injected = <<>>
    /\ OtherIdle

split_call ==
    /\ pc = "split"
    /\ pc' = "split_done"
    /\ IF SplitRaises(yul_code)
       THEN /\ ret' = Raised
            /\ UNCHANGED <<prolog, main_logic, epilog>>
       ELSE /\ ret' = NoReturn
            /\ prolog' = split_main_logic(yul_code)[1]
            /\ main_logic' = split_main_logic(yul_code)[2]
            /\ epilog' = split_main_logic(yul_code)[3]
    /\ UNCHANGED <<yul_code, obfuscated_yul_code, init_dummy_vars, call, ncalls,
                   main_logic_lines, nguards, nreads, idx, depth,
                   obfuscated_main_logic, injected, var_name, decoy_val,
                   pred_vars>>

SplitNext == split_call

SplitSpec == SplitInit /\ [][SplitNext]_vars

----------------------------------------------------------------------------
(* PredSpec: the value of every predicate _generate_opaque_predicate can    *)
(* return, in the arithmetic of the Yul machine word (WordBits wide here)   *)

RECURSIVE Pow2(_)
Pow2(n) == IF n = 0 THEN 1 ELSE 2 * Pow2(n - 1)

Word == Pow2(WordBits)

Bool(c) == IF c THEN 1 ELSE 0

add(x, y) == (x + y) % Word
sub(x, y) == (x - y + Word) % Word
mul(x, y) == (x * y) % Word
div(x, y) == IF y = 0 THEN 0 ELSE x \div y
mod(x, y) == IF y = 0 THEN 0 ELSE x % y
lt(x, y) == Bool(x < y)
gt(x, y) == Bool(x > y)
eq(x, y) == Bool(x = y)
iszero(x) == Bool(x = 0)
shl(bits, x) == (x * Pow2(bits)) % Word

RECURSIVE and(_, _)
and(x, y) ==
    IF x = 0 \/ y = 0 THEN 0
    ELSE (x % 2) * (y % 2) + 2 * and(x \div 2, y \div 2)

RECURSIVE xor(_, _)
xor(x, y) ==
    IF x = 0 /\ y = 0 THEN 0
    ELSE ((x + y) % 2) + 2 * xor(x \div 2, y \div 2)

RECURSIVE or(_, _)
or(x, y) ==
    IF x = 0 /\ y = 0 THEN 0
    ELSE Bool(x % 2 = 1 \/ y % 2 = 1) + 2 * or(x \div 2, y \div 2)

NumTruePredicates == 7
NumFalsePredicates == 8

\* TRUE_PREDICATES_TEMPLATES[i - 1] with v1, v2 substituted
TruePredicate(i, v1, v2) ==
    CASE i = 1 -> iszero(lt(mul(v1, v1), v1))
      [] i = 2 -> eq(mod(mul(v1, add(v2, 1)), v1), mod(add(v2, 1), v1))
      [] i = 3 -> iszero(sub(1, eq(and(v1, v2), and(v2, v1))))
      [] i = 4 -> eq(sub(add(v1, v2), v2), v1)
      [] i = 5 -> eq(or(and(v1, v2), or(v1, v2)), or(v1, v2))
      [] i = 6 -> iszero(lt(div(mul(v1, v2), v2), v1))
      [] i = 7 -> eq(shl(0, v1), v1)

\* FALSE_PREDICATES_TEMPLATES[i - 1] with v1, v2 substituted
FalsePredicate(i, v1, v2) ==
    CASE i = 1 -> lt(add(v1, v2), 0)
      [] i = 2 -> lt(mul(v1, v2), 0)
      [] i = 3 -> eq(add(v1, v2), 0)
      [] i = 4 -> gt(xor(v1, v1), 0)
      [] i = 5 -> iszero(v1)
      [] i = 6 -> gt(sub(v1, v1), 0)
      [] i = 7 -> lt(mod(v2, v1), 0)
      [] i = 8 -> eq(and(v1, v2), xor(v1, v2))

\* the value of the predicate returned: template 0 is the literal fallback
PredicateValue(eval_to, template, v1, v2) ==
    IF template = 0 THEN (IF eval_to THEN eq(0, 0) ELSE eq(1, 0))
    ELSE IF eval_to THEN TruePredicate(template, v1, v2)
    ELSE FalsePredicate(template, v1, v2)

Templates(eval_to) ==
    0..(IF eval_to THEN NumTruePredicates ELSE NumFalsePredicates)

PositiveWords == 1..(Word - 1)

PipeQuiet(at) ==
    /\ yul_code = <<>>
    /\ obfuscated_yul_code = None
    /\ init_dummy_vars = <<>>
    /\ pc = at
    /\ call = "none"
    /\ ncalls = 0
    /\ ret = NoReturn
    /\ prolog = <<>> /\ main_logic = <<>> /\ epilog = <<>>
    /\ main_logic_lines = <<>>
    /\ nguards = 0 /\ nreads = 0 /\ idx = 0 /\ depth = 0
    /\ obfuscated_main_logic = <<>> /\ injected = <<>>

PredInit ==
    /\ PipeQuiet("predicate")
    /\ var_name = 0
    /\ decoy_val = <<>>
    /\ p_eval_to \in BOOLEAN
    /\ p_template \in Templates(p_eval_to)
    /\ p_v1 \in PositiveWords
    /\ p_v2 \in PositiveWords
    /\ p_value = 0

evaluate_predicate ==
    /\ pc = "predicate"
    /\ pc' = "evaluated"
    /\ p_value' = PredicateValue(p_eval_to, p_template, p_v1, p_v2)
    /\ UNCHANGED <<yul_code, obfuscated_yul_code, init_dummy_vars, call, ncalls,
                   ret, prolog, main_logic, epilog, main_logic_lines, nguards,
                   nreads, idx, depth, obfuscated_main_logic, injected,
                   var_name, decoy_val, p_eval_to, p_template, p_v1, p_v2>>

PredNext == evaluate_predicate

PredSpec == PredInit /\ [][PredNext]_vars

----------------------------------------------------------------------------
(* DummySpec: the values the statements of _generate_dummy_code bind.       *)
(* decoy_val[i] is the value of the i-th decoy of init_dummy_vars.          *)

Literals == 0..MaxLiteral

\* math_ops
MathOp(op, x, y) ==
    CASE op = "add" -> add(x, y)
      [] op = "mul" -> mul(x, y)
      [] op = "div" -> div(x, y)

DummyInit ==
    /\ PipeQuiet("dummy")
    /\ var_name = 0
    /\ decoy_val = <<>>
    /\ p_eval_to = FALSE /\ p_template = 0 /\ p_v1 = 0 /\ p_v2 = 0
    /\ p_value = 0

DummyFrame ==
    UNCHANGED <<yul_code, obfuscated_yul_code, init_dummy_vars, pc, call, ncalls,
                ret, prolog, main_logic, epilog, main_logic_lines, nguards,
                nreads, idx, depth, obfuscated_main_logic, injected, var_name,
                pred_vars>>

\* let <fresh> := <literal>
dummy_literal ==
    /\ pc = "dummy"
    /\ Len(decoy_val) < MaxDecoys
    /\ \E literal \in Literals : decoy_val' = Append(decoy_val, literal)
    /\ DummyFrame

\* let <fresh> := <op>(<var_name_2>, <literal>)
dummy_operation ==
    /\ pc = "dummy"
    /\ Len(decoy_val) < MaxDecoys
    /\ Len(decoy_val) >= 3
    /\ \E var_name_2 \in 1..Len(decoy_val), literal \in Literals,
          op \in {"add", "mul", "div"} :
          decoy_val' = Append(decoy_val, MathOp(op, decoy_val[var_name_2], literal))
    /\ DummyFrame

DummyNext == dummy_literal \/ dummy_operation

DummySpec == DummyInit /\ [][DummyNext]_vars

----------------------------------------------------------------------------
(* NameSpec: the redraw loop of _generate_dummy_var_name over a vocabulary  *)
(* of NumWords words and NumSuffixes suffixes                               *)

Vocabulary == 1..(NumWords * NumSuffixes)

NameInit ==
    /\ PipeQuiet("name_idle")
    /\ var_name = 0
    /\ decoy_val = <<>>
    /\ p_eval_to = FALSE /\ p_template = 0 /\ p_v1 = 0 /\ p_v2 = 0
    /\ p_value = 0

NameFrame ==
    UNCHANGED <<yul_code, obfuscated_yul_code, call, ncalls, ret, prolog,
                main_logic, epilog, main_logic_lines, nguards, nreads, idx,
                depth, obfuscated_main_logic, injected, decoy_val, pred_vars>>

\* the first draw
name_draw ==
    /\ pc = "name_idle"
    /\ pc' = "name_loop"
    /\ var_name' \in Vocabulary
    /\ UNCHANGED init_dummy_vars
    /\ NameFrame

\* the body of the while loop
name_redraw ==
    /\ pc = "name_loop"
    /\ var_name \in Range(init_dummy_vars)
    /\ var_name' \in Vocabulary
    /\ UNCHANGED <<pc, init_dummy_vars>>
    /\ NameFrame

\* the loop's exit: append and return
name_return ==
    /\ pc = "name_loop"
    /\ var_name \notin Range(init_dummy_vars)
    /\ init_dummy_vars' = Append(init_dummy_vars, var_name)
    /\ pc' = "name_idle"
    /\ UNCHANGED var_name
    /\ NameFrame

NameNext == name_draw \/ name_redraw \/ name_return

NameSpec == NameInit /\ [][NameNext]_vars

----------------------------------------------------------------------------
(* Reading the generated text *)

IsGuard(t) == t.k \in {"if", "switch"}

\* the value of a guard's predicate: the literal fallback eq(0, 0) is 1 and
\* eq(1, 0) is 0; a template predicate is taken at the value it was drawn for
GuardValue(t) == t.n

\* index of the first token of kind k met at brace depth 1, scanning from i
RECURSIVE FindAt(_, _, _, _)
FindAt(text, i, d, k) ==
    IF i > Len(text) THEN 0
    ELSE IF text[i].k = k /\ d = 1 THEN i
    ELSE FindAt(text, i + 1,
                d + Bool(text[i].k = "{") - Bool(text[i].k = "}"), k)

\* the two arms of a text that is one guard:
\*   if P {\n A \n} else {\n B \n}      switch P { case 0:\n A \ndefault:\n B \n}
FirstArm(text) ==
    IF text[1].k = "if"
    THEN SubSeq(text, 4, FindAt(text, 4, 1, "}") - 2)
    ELSE SubSeq(text, 5, FindAt(text, 5, 1, "default") - 2)

SecondArm(text) ==
    IF text[1].k = "if"
    THEN LET c == FindAt(text, 4, 1, "}")
         IN SubSeq(text, c + 4, FindAt(text, c + 4, 1, "}") - 2)
    ELSE LET c == FindAt(text, 5, 1, "default")
         IN SubSeq(text, c + 2, FindAt(text, c + 2, 1, "}") - 2)

\* Yul: an if runs its first arm iff the condition is non-zero; a switch
\* runs its case 0 arm iff the expression is 0 and its default arm otherwise
ExecutedArm(text) ==
    IF text[1].k = "if"
    THEN (IF GuardValue(text[1]) # 0 THEN FirstArm(text) ELSE SecondArm(text))
    ELSE (IF GuardValue(text[1]) = 0 THEN FirstArm(text) ELSE SecondArm(text))

RECURSIVE FollowExecuted(_)
FollowExecuted(text) ==
    IF text # <<>> /\ IsGuard(text[1])
    THEN FollowExecuted(ExecutedArm(text))
    ELSE text

\* the decoys a token reads
ReadsOf(t) ==
    IF t.k = "let" THEN {t.a} \ {0}
    ELSE IF IsGuard(t) THEN {t.a, t.b} \ {0}
    ELSE {}

BoundBefore(text, i, v) ==
    \E j \in 1..(i - 1) : text[j].k = "let" /\ text[j].n = v

----------------------------------------------------------------------------
(* Claims *)

OriginalMainLogic == split_main_logic(yul_code)[2]

\* C1: after any number of wraps, following the executed arm of every
\* injected guard of the wrapped main logic reaches the original main logic.
C1_ExecutedArmIsPayload ==
    (pc \in {"wrap", "scan"} /\ nguards > 0)
        => FollowExecuted(main_logic) = OriginalMainLogic

\* C2: every predicate generated with eval_to = True evaluates to non-zero
\* for all positive v1, v2.
C2_TruePredicatesTrue ==
    (pc = "evaluated" /\ p_eval_to) => p_value # 0

\* C3: every predicate generated with eval_to = False evaluates to zero for
\* all positive v1, v2.
C3_FalsePredicatesFalse ==
    (pc = "evaluated" /\ ~p_eval_to) => p_value = 0

\* C4: after any sequence of dummy statements every decoy is bound to a
\* strictly positive integer.
C4_DecoysPositive ==
    \A i \in 1..Len(decoy_val) : decoy_val[i] > 0

\* C5: when the split does not raise, prolog + main_logic + epilog is the
\* input text.
C5_SplitConcatenates ==
    (pc = "split_done" /\ ret # Raised)
        => prolog \o main_logic \o epilog = yul_code

\* C6: in the text an obfuscation returns, every decoy read by a dummy
\* statement or a predicate has its own let binding earlier in that text.
C6_ReadsAreBoundEarlier ==
    obfuscated_yul_code.some =>
        \A i \in 1..Len(obfuscated_yul_code.text) :
            \A v \in ReadsOf(obfuscated_yul_code.text[i]) :
                BoundBefore(obfuscated_yul_code.text, i, v)

\* the input has the runtime-object marker and a code-block opening after it
HasOpening(code, head, from) ==
    \E i \in from..Len(code), j \in from..Len(code) :
        /\ i < j
        /\ code[i].k = head
        /\ code[j].k = "{"
        /\ \A m \in (i + 1)..(j - 1) : IsSpace(code[m])

HasRuntimeCodeBlock(code) ==
    \E j \in 1..Len(code) :
        /\ code[j].k = "{"
        /\ HasOpening(SubSeq(code, 1, j), "R", 1)
        /\ HasOpening(code, "C", j + 1)

\* C7: on an input without the marker or without a code block after it,
\* every call fails at once with the error and leaves the instance as it
\* was: no cached text, the decoy list untouched, no run in progress.
C7_MalformedInputRaises ==
    ~HasRuntimeCodeBlock(yul_code) =>
        /\ pc = "idle"
        /\ obfuscated_yul_code = None
        /\ init_dummy_vars = <<>>
        /\ ret = IF ncalls = 0 THEN NoReturn ELSE Raised

C7_Witness ==
    /\ ~HasRuntimeCodeBlock(yul_code)
    /\ ncalls = MaxCalls
    /\ ret = Raised

C9_RedrawLoopCanEnd ==
    pc = "name_loop" => \E n \in Vocabulary : n \notin Range(init_dummy_vars)

\* the scan's depth after its first k lines
RECURSIVE DepthOfLine(_)
DepthOfLine(k) ==
    IF k = 0 THEN 1
    ELSE DepthOfLine(k - 1) + Count(main_logic_lines[k], "{")
                            - Count(main_logic_lines[k], "}")

\* the output of the scan for its first k lines, from the history
RECURSIVE Rebuilt(_)
Rebuilt(k) ==
    IF k = 0 THEN <<>>
    ELSE Rebuilt(k - 1) \o injected[k] \o Strip(main_logic_lines[k]) \o <<NL>>

\* a run of 1..DUMMY_LINE_GENERATOR_STRENGTH dummy statements
IsDummyRun(text) ==
    /\ Len(text) \in {2 * n : n \in 1..DUMMY_LINE_GENERATOR_STRENGTH}
    /\ \A i \in 1..Len(text) :
          text[i].k = (IF i % 2 = 1 THEN "let" ELSE "\n")

ScanDone == pc = "idle" /\ obfuscated_yul_code.some

\* C10: the scan keeps a depth that starts at 1 and adds each line's braces;
\* before each line it puts a run of 1..DUMMY_LINE_GENERATOR_STRENGTH dummy
\* statements exactly when that depth is > 0; the lines themselves come out
\* trimmed, in order, none dropped, and the returned text is the prolog, that
\* output and the epilog.
C10_ScanKeepsLines ==
    (pc = "scan" \/ ScanDone) =>
        /\ nguards > 0
        /\ main_logic_lines = SplitLines(main_logic)
        /\ Len(injected) = idx - 1
        /\ depth = DepthOfLine(idx - 1)
        /\ \A i \in 1..(idx - 1) :
              IF DepthOfLine(i) > 0 THEN IsDummyRun(injected[i])
              ELSE injected[i] = <<>>
        /\ obfuscated_main_logic = Rebuilt(idx - 1)
        /\ prolog = split_main_logic(yul_code)[1]
        /\ epilog = split_main_logic(yul_code)[3]
        /\ ScanDone =>
              /\ idx = Len(main_logic_lines) + 1
              /\ obfuscated_yul_code.text =
                     prolog \o Rebuilt(Len(main_logic_lines)) \o epilog

C10_Witness ==
    /\ ScanDone
    /\ nguards > 0
    /\ \E i \in 1..Len(main_logic_lines) :
          Strip(main_logic_lines[i]) # main_logic_lines[i]

====
